---- MODULE Spec2Model ----
(***************************************************************************)
(* A model of the request/response lifecycle core of the requests library  *)
(* as it stands in src/src/requests: sessions.py (Session and the redirect *)
(* mixin), auth.py (HTTPDigestAuth) and adapters.py (BaseAdapter and       *)
(* HTTPAdapter).  A method whose body is `pass` is modelled as what Python *)
(* runs: it changes nothing and returns None.                              *)
(*                                                                         *)
(* The components do not share state, so each has its own specification    *)
(* over its own variables; the other variables stay at their idle value.   *)
(***************************************************************************)
EXTENDS Integers, Sequences, FiniteSets, TLC

VARIABLES
    \* ---- Session / SessionRedirectMixin (sessions.py) ----
    max_redirects,   \* Session.max_redirects
    serverChain,     \* the redirect statuses the server answers with, in order
    finalStatus,     \* the non-redirect status the server answers after them
    sessPc,          \* "ready" | "returned" | "raised"
    sendResult,      \* what Session.send returned
    raisedError,     \* the exception a call ended with ("" if none)
    netSends,        \* adapter sends issued by the call
    redirResult,     \* what resolve_redirects returned ("unset" before a call)
    origRequest,     \* the prepared request handed to Session.send
    reissued,        \* the requests re-issued after a redirect, in order
    \* ---- should_strip_auth / rebuild_auth (sessions.py) ----
    old_url,         \* response.request.url
    new_url,         \* prepared_request.url (the redirect target)
    origHeaders,     \* header names of the request that was redirected
    prepHeaders,     \* header names of the copy about to be re-issued
    stripRet,        \* "unset" | "True" | "False": should_strip_auth's result
    rebuildPc,       \* "ready" | "done": rebuild_auth has run
    \* ---- HTTPAdapter connection pools (adapters.py) ----
    pools,           \* the TLS attributes of every live urllib3 pool, by pool
    proxy_manager,   \* HTTPAdapter.proxy_manager: the proxy URLs with a manager
    served,          \* the get_connection_with_tls_context calls made so far
    managers,        \* HTTPAdapter.proxy_manager: the manager stored per URL
    created,         \* the proxy managers proxy_from_url has built, in order
    returned,        \* the proxy_manager_for calls made so far
    closed,          \* HTTPAdapter.close has been called on the adapter
    certVerified,    \* cert_verify calls made so far
    \* ---- HTTPDigestAuth (auth.py) ----
    tl,              \* self._thread_local, per thread: the attribute values
    tlSet,           \* per thread: the attributes that exist in that thread
    lastOp,          \* per thread: the last operation it ran and how it ended
    lastBuild,       \* per thread: its last build_digest_header execution
    resends,         \* per thread: r.connection.send calls since the call began
    actor,           \* the thread that ran the last operation
    opSeq,           \* operations run so far
    \* ---- BaseAdapter.send / HTTPAdapter.send (adapters.py) ----
    max_retries_arg, \* the max_retries argument the adapter was built with
    max_retries,     \* self.max_retries: the urllib3 Retry the adapter holds
    lastExchange,    \* the last conn.urlopen call issued to the transport
    exchangeCount,   \* conn.urlopen calls issued so far
    sendCount,       \* send calls made so far
    sendOutcome,     \* how the last send ended
    \* ---- Session.mount / Session.get_adapter (sessions.py) ----
    adapters,        \* Session.adapters: the (prefix, adapter) items, in order
    mounted,         \* the mount calls made on the session since __init__
    lookup,          \* the last get_adapter call and what it returned
    \* ---- functions called on their arguments alone ----
    args,            \* the arguments of the call
    ret,             \* whether the call has returned, and what
    \* ---- HTTPDigestAuth nonce bookkeeping over a run of challenges ----
    nonceTl,         \* self._thread_local of the constructing thread
    builds           \* the build_digest_header executions so far, in order

sessVars  == <<max_redirects, serverChain, finalStatus, sessPc, sendResult,
               raisedError, netSends, redirResult, origRequest, reissued>>
stripVars == <<old_url, new_url, origHeaders, prepHeaders, stripRet, rebuildPc>>
poolVars  == <<pools, proxy_manager, served, managers, created, returned,
               closed, certVerified>>
digestVars == <<tl, tlSet, lastOp, lastBuild, resends, actor, opSeq>>
sendVars  == <<max_retries_arg, max_retries, lastExchange, exchangeCount,
               sendCount, sendOutcome>>
mountVars == <<adapters, mounted, lookup>>
callVars  == <<args, ret>>
nonceVars == <<nonceTl, builds>>
vars      == <<sessVars, stripVars, poolVars, digestVars, sendVars, mountVars,
               callVars, nonceVars>>

\* what the operations of one component leave alone
notSess   == <<stripVars, poolVars, digestVars, sendVars, mountVars, callVars,
               nonceVars>>
notStrip  == <<sessVars, poolVars, digestVars, sendVars, mountVars, callVars,
               nonceVars>>
notPool   == <<sessVars, stripVars, digestVars, sendVars, mountVars, callVars,
               nonceVars>>
notDigest == <<sessVars, stripVars, poolVars, sendVars, mountVars, callVars,
               nonceVars>>
notSend   == <<sessVars, stripVars, poolVars, digestVars, mountVars, callVars,
               nonceVars>>
notMount  == <<sessVars, stripVars, poolVars, digestVars, sendVars, callVars,
               nonceVars>>
notNonce  == <<sessVars, stripVars, poolVars, digestVars, sendVars, mountVars,
               callVars>>
notCall   == <<sessVars, stripVars, poolVars, digestVars, sendVars, mountVars,
               nonceVars>>

----------------------------------------------------------------------------
(* Bounds of the model *)

MaxChain == 3
MaxRedirectLimit == 2
MaxCalls == 2
MaxOps == 4
MaxRetriesArg == 2
MaxSends == 3
MaxMounts == 2
MaxProxyCalls == 3
MaxHooks == 2
MaxBuilds == 4
MaxCertVerify == 1

----------------------------------------------------------------------------
(* Session.send and resolve_redirects                                      *)

\* models.REDIRECT_STATI as listed in the interface section: the statuses
\* the server may use for a redirect hop
REDIRECT_STATI == {301, 302, 303, 307, 308}

RECURSIVE SeqsUpTo(_, _)
SeqsUpTo(S, n) ==
    IF n = 0 THEN {<<>>}
    ELSE LET shorter == SeqsUpTo(S, n - 1)
         IN  shorter \cup {Append(s, x) : s \in shorter, x \in S}

\* Python's None as the value a call returns
NoneResult == [none |-> TRUE, status |-> 0, history |-> <<>>]

\* the response the caller is promised: the final response, with the
\* intermediate redirect responses as its history
PromisedResponse == [none |-> FALSE, status |-> finalStatus, history |-> serverChain]

\* the prepared requests sent: the method and the body (None, bytes, a
\* file-like stream that can seek, or a stream that cannot be rewound)
OrigRequests ==
    { [method |-> "GET", body |-> "None"],
      [method |-> "POST", body |-> "bytes"],
      [method |-> "POST", body |-> "stream"],
      [method |-> "POST", body |-> "unrewindable"] }

SessInit ==
    /\ origRequest \in OrigRequests
    /\ reissued = <<>>
    /\ max_redirects \in 0..MaxRedirectLimit
    /\ serverChain \in SeqsUpTo(REDIRECT_STATI, MaxChain)
    /\ finalStatus \in {200, 404}
    /\ sessPc = "ready"
    /\ sendResult = NoneResult
    /\ raisedError = ""
    /\ netSends = 0
    /\ redirResult = "unset"

SessIdle ==
    /\ origRequest = [method |-> "GET", body |-> "None"]
    /\ reissued = <<>>
    /\ max_redirects = 0
    /\ serverChain = <<>>
    /\ finalStatus = 200
    /\ sessPc = "ready"
    /\ sendResult = NoneResult
    /\ raisedError = ""
    /\ netSends = 0
    /\ redirResult = "unset"

\* Session.send(request, **kwargs): the body is `pass`.  No adapter is
\* selected, nothing is sent, no hook is dispatched, no redirect is followed;
\* the call returns None.
Session_send ==
    /\ sessPc = "ready"
    /\ sessPc' = "returned"
    /\ sendResult' = NoneResult
    /\ UNCHANGED <<max_redirects, serverChain, finalStatus, raisedError,
                   netSends, redirResult, origRequest, reissued>>
    /\ UNCHANGED notSess

\* SessionRedirectMixin.resolve_redirects(resp, req, ...): the body is
\* `pass`, so the call returns None (not a generator) and sends nothing.
resolve_redirects ==
    /\ redirResult = "unset"
    /\ redirResult' = "None"
    /\ UNCHANGED <<max_redirects, serverChain, finalStatus, sessPc, sendResult,
                   raisedError, netSends, origRequest, reissued>>
    /\ UNCHANGED notSess

SessNext == Session_send \/ resolve_redirects

----------------------------------------------------------------------------
(* should_strip_auth and rebuild_auth                                      *)

Schemes   == {"http", "https"}
Hostnames == {"example.com", "other.org"}
\* urlparse(url).port: "None" when the URL names no port
Ports     == {"None", "80", "443", "8080"}

\* urlparse(url), reduced to the fields should_strip_auth reads
Urls == [scheme : Schemes, hostname : Hostnames, port : Ports]

\* SessionRedirectMixin.should_strip_auth(old_url, new_url)
should_strip_auth(old_parsed, new_parsed) ==
    IF old_parsed.hostname # new_parsed.hostname THEN TRUE
    ELSE IF old_parsed.scheme = "http" /\ new_parsed.scheme = "https" THEN FALSE
    ELSE old_parsed.port # new_parsed.port

StripInit ==
    /\ old_url \in Urls
    /\ new_url \in Urls
    /\ origHeaders \in {{"Authorization", "Accept"}, {"Accept"}}
    \* prepared_request = req.copy(): the copy starts with the same headers
    /\ prepHeaders = origHeaders
    /\ stripRet = "unset"
    /\ rebuildPc = "ready"

StripIdle ==
    /\ old_url = [scheme |-> "http", hostname |-> "example.com", port |-> "None"]
    /\ new_url = [scheme |-> "http", hostname |-> "example.com", port |-> "None"]
    /\ origHeaders = {"Accept"}
    /\ prepHeaders = {"Accept"}
    /\ stripRet = "unset"
    /\ rebuildPc = "ready"

\* a caller evaluates should_strip_auth(old_url, new_url)
call_should_strip_auth ==
    /\ stripRet = "unset"
    /\ stripRet' = IF should_strip_auth(old_url, new_url) THEN "True" ELSE "False"
    /\ UNCHANGED <<old_url, new_url, origHeaders, prepHeaders, rebuildPc>>
    /\ UNCHANGED notStrip

\* SessionRedirectMixin.rebuild_auth(prepared_request, response): the body is
\* `pass`; the headers of prepared_request are left as they are.
rebuild_auth ==
    /\ rebuildPc = "ready"
    /\ rebuildPc' = "done"
    /\ UNCHANGED <<old_url, new_url, origHeaders, prepHeaders, stripRet>>
    /\ UNCHANGED notStrip

StripNext == call_should_strip_auth \/ rebuild_auth

----------------------------------------------------------------------------
(* HTTPAdapter: pool selection                                             *)

\* the URLs requests are made to; the first two name the same destination
RequestUrls ==
    { [scheme |-> "https", hostname |-> "example.com", port |-> "None"],
      [scheme |-> "https", hostname |-> "example.com", port |-> "443"],
      [scheme |-> "https", hostname |-> "other.org",   port |-> "None"] }

\* verify: a boolean or a string (a path); os.path.isdir holds of "/ca/dir"
VerifyValues == {"True", "False", "/ca/bundle.pem", "/ca/dir"}
isdir(path) == path = "/ca/dir"
IsBool(v) == v \in {"True", "False"}
IsStr(v)  == v \notin {"True", "False", "None"}

\* cert: None, a single path, or a (cert, key) pair
CertValues ==
    { [kind |-> "none", a |-> "None", b |-> "None"],
      [kind |-> "str",  a |-> "combined.pem", b |-> "None"],
      [kind |-> "pair", a |-> "c.pem", b |-> "k.pem"] }

\* select_proxy(request.url, proxies): None or the proxy URL to use
ProxyChoices == {"None", "http://proxy.local:3128"}

\* a key that a dict does not hold
Absent == "<absent>"

\* utils.DEFAULT_PORTS.get(scheme, 443)
DEFAULT_PORTS(scheme) == IF scheme = "http" THEN "80" ELSE "443"

\* the CA keys, if a path switched verification off as False does
verify_params_PathUnverified(verify) ==
    [cert_reqs |-> IF verify = "True" THEN "CERT_REQUIRED"
                   ELSE IF verify = "None" THEN Absent ELSE "CERT_NONE",
     ca_certs_dir |-> IF IsStr(verify) /\ isdir(verify) THEN verify ELSE Absent,
     ca_certs |-> IF IsStr(verify) /\ ~isdir(verify) THEN verify ELSE Absent]

\* the CA keys, if a directory were also given as the bundle
verify_params_DirAsBundleToo(verify) ==
    [cert_reqs |-> IF IsBool(verify)
                   THEN (IF verify = "True" THEN "CERT_REQUIRED" ELSE "CERT_NONE")
                   ELSE Absent,
     ca_certs_dir |-> IF IsStr(verify) /\ isdir(verify) THEN verify ELSE Absent,
     ca_certs |-> IF IsStr(verify) THEN verify ELSE Absent]

\* build_connection_pool_key_attributes, lines 342-348: the keys of
\* ssl_params that come from verify
verify_params(verify) ==
    [cert_reqs |-> IF IsBool(verify)
                   THEN (IF verify = "True" THEN "CERT_REQUIRED" ELSE "CERT_NONE")
                   ELSE Absent,
     ca_certs_dir |-> IF IsStr(verify) /\ isdir(verify) THEN verify ELSE Absent,
     ca_certs |-> IF IsStr(verify) /\ ~isdir(verify) THEN verify ELSE Absent]

\* the certificate keys, if a single path were also given as the key file
cert_params_PathAsKeyToo(cert) ==
    [cert_file |-> IF cert.kind \in {"str", "pair"} THEN cert.a ELSE Absent,
     key_file |-> IF cert.kind = "pair" THEN cert.b
                  ELSE IF cert.kind = "str" THEN cert.a ELSE Absent]

\* build_connection_pool_key_attributes, lines 350-355: the keys of
\* ssl_params that come from cert (a string, or a tuple of length 2; any
\* other value sets neither key)
cert_params(cert) ==
    [cert_file |-> IF cert.kind \in {"str", "pair"} THEN cert.a ELSE Absent,
     key_file |-> IF cert.kind = "pair" THEN cert.b ELSE Absent]

\* HTTPAdapter.build_connection_pool_key_attributes(request, verify, cert):
\* the pair (host_params, ssl_params)
build_connection_pool_key_attributes(url, verify, cert) ==
    LET port == IF url.port = "None" THEN DEFAULT_PORTS(url.scheme) ELSE url.port
        host_params == [scheme |-> url.scheme, host |-> url.hostname, port |-> port]
        from_verify == verify_params(verify)
        from_cert == cert_params(cert)
    IN  [host_params |-> host_params,
         ssl_params |-> [cert_reqs |-> from_verify.cert_reqs,
                         ca_certs |-> from_verify.ca_certs,
                         ca_certs_dir |-> from_verify.ca_certs_dir,
                         cert_file |-> from_cert.cert_file,
                         key_file |-> from_cert.key_file]]

\* dict.get(key, default)
Get(value, default) == IF value = Absent THEN default ELSE value

\* PoolManager.connection_from_url(url) as get_connection_with_tls_context
\* calls it, with the URL as its only argument: the manager's pool for the
\* URL's scheme, host and port (the scheme's default port when none is named)
connection_from_url(manager, url) ==
    [manager |-> manager, scheme |-> url.scheme, host |-> url.hostname,
     port |-> IF url.port = "None" THEN DEFAULT_PORTS(url.scheme) ELSE url.port]

PoolIds ==
    { connection_from_url(m, u) : m \in {"direct"} \cup (ProxyChoices \ {"None"}),
                                  u \in RequestUrls }

NoPool == [cert_reqs |-> Absent, ca_certs |-> Absent, ca_cert_dir |-> Absent,
           cert_file |-> Absent, key_file |-> Absent]

\* HTTPAdapter.proxy_manager_for(proxy): the cache after the call
proxy_manager_for(cache, proxy) ==
    IF proxy \in cache THEN cache ELSE cache \cup {proxy}

\* the proxy URLs an adapter is asked for: without userinfo, with a user
\* name and a password, and with a user name and an empty password
ProxyUrls ==
    (ProxyChoices \ {"None"})
        \cup {"http://user:pw@proxy.local:3128", "http://user:@proxy.local:3128"}

\* the keyword arguments a caller of proxy_manager_for passes
ProxyKwargs == {"{}", "{'num_pools': 5}"}

\* urlparse(url).username and .password: None where the URL has no userinfo
\* or no password part
urlparse_userinfo(url) ==
    CASE url = "http://user:pw@proxy.local:3128" ->
             [username |-> "user", password |-> "pw"]
      [] url = "http://user:@proxy.local:3128" ->
             [username |-> "user", password |-> ""]
      [] OTHER -> [username |-> "None", password |-> "None"]

\* utils.get_auth_from_url(url): the unquoted user name and password, and
\* ('', '') when either is None
get_auth_from_url(url) ==
    LET parsed == urlparse_userinfo(url)
    IN  IF parsed.username = "None" \/ parsed.password = "None"
        THEN [username |-> "", password |-> ""]
        ELSE parsed

\* auth._basic_auth_str(username, password): 'Basic ' and the base64 of
\* 'username:password', kept as the pair the encoding is taken of
_basic_auth_str(username, password) ==
    [scheme |-> "Basic", username |-> username, password |-> password]

\* a headers dict without the key 'Proxy-Authorization'
NoProxyAuth == [scheme |-> Absent, username |-> "", password |-> ""]

\* HTTPAdapter.proxy_headers(proxy): the headers dict, as the value of its
\* only possible key 'Proxy-Authorization'
proxy_headers(proxy) ==
    LET auth == get_auth_from_url(proxy)
    IN  IF auth.username # "" /\ auth.password # ""
        THEN _basic_auth_str(auth.username, auth.password)
        ELSE NoProxyAuth

\* a lookup that never finds a stored manager
cached_manager_Miss(stored, cache, proxy) == 0

\* proxy_manager_for, lines 201-202: the manager stored for the URL, 0 when
\* the URL is not a key of self.proxy_manager
cached_manager(stored, cache, proxy) ==
    IF proxy \in cache THEN stored[proxy] ELSE 0

\* proxy_manager_for, lines 204-211: the manager proxy_from_url builds, with
\* the keyword arguments it is given; an empty headers dict is not passed
\* on, which leaves the manager without a Proxy-Authorization header too
proxy_from_url(proxy, proxy_kwargs) ==
    [proxy |-> proxy, kwargs |-> proxy_kwargs,
     proxy_headers |-> proxy_headers(proxy),
     proxy_ssl_context |-> "_preloaded_ssl_context"]

\* proxy_manager_for, lines 211-212: the managers built so far after the call
created_after(stored, cache, made, proxy, proxy_kwargs) ==
    IF cached_manager(stored, cache, proxy) # 0
    THEN made
    ELSE Append(made, proxy_from_url(proxy, proxy_kwargs))

\* proxy_manager_for, lines 202 and 212-213: the manager the call returns,
\* which a call that built one stores under the URL
manager_for(stored, cache, made, proxy) ==
    IF cached_manager(stored, cache, proxy) # 0
    THEN cached_manager(stored, cache, proxy)
    ELSE Len(made) + 1

\* an adapter after construction: no pool exists yet and no proxy manager is
\* cached.  (HTTPAdapter.__init__ ends in init_poolmanager, which reads
\* self.cert_reqs, self.ca_certs and self.ciphers; the adapter modelled is
\* one whose class provides them or overrides init_poolmanager.)
PoolInit ==
    /\ pools = [p \in PoolIds |-> NoPool]
    /\ proxy_manager = {}
    /\ served = <<>>
    /\ managers = [u \in ProxyUrls |-> 0]
    /\ created = <<>>
    /\ returned = <<>>
    /\ closed = FALSE
    /\ certVerified = 0

\* HTTPAdapter.get_connection_with_tls_context(request, verify, proxies, cert)
get_connection_with_tls_context(url, verify, proxy, cert) ==
    /\ Len(served) < MaxCalls
    /\ LET attrs == build_connection_pool_key_attributes(url, verify, cert)
           ssl_params == attrs.ssl_params
           conn == connection_from_url(IF proxy # "None" THEN proxy ELSE "direct", url)
       IN  /\ proxy_manager' = IF proxy # "None"
                               THEN proxy_manager_for(proxy_manager, proxy)
                               ELSE proxy_manager
           /\ created' = IF proxy # "None"
                         THEN created_after(managers, proxy_manager, created,
                                            proxy, "{}")
                         ELSE created
           /\ managers' = IF proxy # "None"
                          THEN [managers EXCEPT ![proxy] =
                                   manager_for(managers, proxy_manager, created,
                                               proxy)]
                          ELSE managers
           /\ pools' = [pools EXCEPT ![conn] =
                          [cert_reqs   |-> Get(ssl_params.cert_reqs, "CERT_REQUIRED"),
                           ca_certs    |-> Get(ssl_params.ca_certs, "None"),
                           ca_cert_dir |-> Get(ssl_params.ca_certs_dir, "None"),
                           cert_file   |-> Get(ssl_params.cert_file, "None"),
                           key_file    |-> Get(ssl_params.key_file, "None")]]
           /\ served' = Append(served,
                          [host_params |-> attrs.host_params, verify |-> verify,
                           cert |-> cert, proxy |-> proxy, conn |-> conn,
                           afterClose |-> closed])
    /\ UNCHANGED <<closed, returned, certVerified>>
    /\ UNCHANGED notPool

\* the pools that hold a connection's attributes
LivePools(ps) == {p \in PoolIds : ps[p] # NoPool}

\* HTTPAdapter.close, lines 431-433: self.poolmanager.clear() drops every
\* pool of the direct manager, and proxy.clear() those of every proxy manager
clear_managers(ps) == [p \in PoolIds |-> NoPool]

\* HTTPAdapter.close(): the managers are cleared; self.proxy_manager, the
\* dict of proxy managers by proxy URL, is iterated and left as it is, and
\* nothing on the adapter records that it was closed
HTTPAdapter_close ==
    /\ ~closed
    /\ closed' = TRUE
    /\ pools' = clear_managers(pools)
    /\ UNCHANGED <<proxy_manager, served, managers, created, returned,
                   certVerified>>
    /\ UNCHANGED notPool

\* HTTPAdapter.proxy_manager_for(proxy, **proxy_kwargs)
HTTPAdapter_proxy_manager_for(proxy, proxy_kwargs) ==
    /\ Len(returned) < MaxProxyCalls
    /\ proxy_manager' = proxy_manager_for(proxy_manager, proxy)
    /\ created' = created_after(managers, proxy_manager, created, proxy,
                                proxy_kwargs)
    /\ managers' = [managers EXCEPT ![proxy] =
                       manager_for(managers, proxy_manager, created, proxy)]
    /\ returned' = Append(returned,
                      [proxy |-> proxy, kwargs |-> proxy_kwargs,
                       manager |-> manager_for(managers, proxy_manager,
                                               created, proxy)])
    /\ UNCHANGED <<pools, served, closed, certVerified>>
    /\ UNCHANGED notPool

\* HTTPAdapter.cert_verify(conn, url, verify, cert) on a connection pool
\* the adapter handed out earlier
HTTPAdapter_cert_verify(conn, verify, cert) ==
    /\ certVerified < MaxCertVerify
    /\ conn \in LivePools(pools)
    /\ certVerified' = certVerified + 1
    /\ pools' = [pools EXCEPT ![conn] =
          [cert_reqs   |-> IF IsStr(verify) THEN "CERT_REQUIRED"
                           ELSE IF verify = "False" THEN "CERT_NONE"
                           ELSE "CERT_REQUIRED",
           ca_certs    |-> IF IsStr(verify) THEN verify
                           ELSE IF verify = "False" THEN "None"
                           ELSE "DEFAULT_CA_BUNDLE_PATH",
           ca_cert_dir |-> pools[conn].ca_cert_dir,
           cert_file   |-> IF cert.kind = "none" THEN pools[conn].cert_file
                           ELSE cert.a,
           key_file    |-> IF cert.kind \in {"none", "str"}
                           THEN pools[conn].key_file ELSE cert.b]]
    /\ UNCHANGED <<proxy_manager, served, managers, created, returned, closed>>
    /\ UNCHANGED notPool

ProxyNext ==
    \E proxy \in ProxyUrls, proxy_kwargs \in ProxyKwargs :
        HTTPAdapter_proxy_manager_for(proxy, proxy_kwargs)

PoolNext ==
    \E url \in RequestUrls, verify \in VerifyValues, proxy \in ProxyChoices,
       cert \in CertValues :
        get_connection_with_tls_context(url, verify, proxy, cert)

----------------------------------------------------------------------------
(* HTTPDigestAuth                                                          *)

\* "T0" is the thread that constructed the auth object; "T1" is another
\* thread that uses the same object
Threads == {"T0", "T1"}

\* the attributes __init__ puts on self._thread_local
TLFields == {"last_nonce", "nonce_count", "chal", "pos", "num_401_calls"}

\* the challenge a WWW-Authenticate header parses to (parse_dict_header);
\* "None" is what chal.get(key) gives for a key the header does not have
Challenges ==
    { [nonce |-> "n1", qop |-> "auth",     algorithm |-> "None",    opaque |-> "o1"],
      [nonce |-> "n2", qop |-> "auth",     algorithm |-> "None",    opaque |-> "None"],
      [nonce |-> "n1", qop |-> "None",     algorithm |-> "MD5",     opaque |-> ""],
      [nonce |-> "n1", qop |-> "auth-int", algorithm |-> "None",    opaque |-> "None"],
      [nonce |-> "n2", qop |-> "auth-int", algorithm |-> "None",    opaque |-> "None"],
      [nonce |-> "n1", qop |-> "auth",     algorithm |-> "SHA-256", opaque |-> "None"] }

\* chal = {}
EmptyChal == [nonce |-> "None", qop |-> "None", algorithm |-> "None",
              opaque |-> "None"]

\* HTTPDigestAuth.__init__, in the constructing thread
InitThreadLocal ==
    [last_nonce |-> "", nonce_count |-> 0, chal |-> EmptyChal, pos |-> "None",
     num_401_calls |-> 1]

\* self._thread_local in a thread that has set no attribute on it
NoThreadLocal ==
    [last_nonce |-> Absent, nonce_count |-> 0, chal |-> EmptyChal, pos |-> Absent,
     num_401_calls |-> 0]

\* the responses handed to the hooks: the status, whether WWW-Authenticate
\* names the digest scheme, the challenge it parses to, and the adapter
\* (r.connection) that produced the response
Responses ==
    [status : {200}, digest : {FALSE}, chal : {EmptyChal}, connection : {"BaseAdapter"}]
    \cup [status : {401}, digest : {FALSE}, chal : {EmptyChal}, connection : {"BaseAdapter"}]
    \cup [status : {401}, digest : {TRUE}, chal : Challenges,
          connection : {"BaseAdapter", "HTTPAdapter"}]
    \cup [status : {503}, digest : {TRUE},
          chal : {[nonce |-> "n1", qop |-> "auth", algorithm |-> "None",
                   opaque |-> "o1"]},
          connection : {"BaseAdapter"}]

\* a prepared request: method, URL and the Authorization header it carries
\* (Absent when it has none); r.request of every response is OrigPrepared
OrigPrepared ==
    [method |-> "GET", url |-> "http://example.com/", Authorization |-> Absent]
NoRequest == [method |-> "", url |-> "", Authorization |-> Absent]

\* the request objects handle_401 works with: r.request and, once
\* r.request.copy() has run, the copy
RequestObjects == [orig |-> OrigPrepared, prep |-> NoRequest]

\* prep = r.request, with no copy taken
request_copy_Alias(objects) == [objects |-> objects, id |-> "orig"]

\* line 181, prep = r.request.copy(): a new object with the same fields
request_copy(objects) ==
    [objects |-> [objects EXCEPT !.prep = objects.orig], id |-> "prep"]

\* lines 185-186, prep.headers['Authorization'] = value
set_authorization(objects, id, value) ==
    [objects EXCEPT ![id].Authorization = value]

\* the last operation of a thread: what it was and how it ended; for
\* handle_401 also the request it sent (NoRequest if none), the history of
\* the response it returned, the request object that response holds ("" if
\* it returned r or raised), and r.request as the call left it; for
\* handle_redirect whether the response was a redirect and whether a
\* resend had been made before it; for handle_401 whether it directly
\* followed such a redirect
NoOp    == [op |-> "none", result |-> "", challenge |-> FALSE, built |-> FALSE,
            resent |-> FALSE, numBefore |-> 0, sent |-> NoRequest,
            history |-> <<>>, request |-> "", orig |-> OrigPrepared,
            redirect |-> FALSE, afterResend |-> FALSE, afterHop |-> FALSE]
\* no header: nothing listed, no nc text
NoHeader == [fields |-> {}, nc |-> <<>>]

NoBuild == [built |-> FALSE, emitted |-> FALSE, nonce |-> "None", nc |-> 0,
            header |-> NoHeader]

\* the text '%x' % n, as the sequence of its characters
RECURSIVE ToHex(_)
ToHex(n) ==
    LET digit(d) == <<"0", "1", "2", "3", "4", "5", "6", "7", "8", "9",
                      "a", "b", "c", "d", "e", "f">>[d + 1]
    IN  IF n < 16 THEN <<digit(n)>> ELSE Append(ToHex(n \div 16), digit(n % 16))

\* text padded with zeros on the left to at least width characters
RECURSIVE ZeroPad(_, _)
ZeroPad(text, width) ==
    IF Len(text) >= width THEN text ELSE ZeroPad(<<"0">> \o text, width)

\* the count written without padding
Format08x_Unpadded(n) == ToHex(n)

\* line 122: '%08x' % self._thread_local.nonce_count
Format08x(n) == ZeroPad(ToHex(n), 8)

\* a value `if value:` takes for true: neither None nor the empty string
Truthy(value) == value \notin {"None", ""}

\* lines 142-151: the fields the header lists, and the text of nc
digest_header(chal, nonce_count) ==
    [fields |-> {"username", "realm", "nonce", "uri", "response"}
                \cup (IF Truthy(chal.opaque) THEN {"opaque"} ELSE {})
                \cup (IF Truthy(chal.algorithm) THEN {"algorithm"} ELSE {})
                \cup (IF Truthy(chal.qop) THEN {"qop", "nc", "cnonce"} ELSE {}),
     nc |-> IF Truthy(chal.qop) THEN Format08x(nonce_count) ELSE <<>>]

DigestInit ==
    /\ tl = [t \in Threads |-> IF t = "T0" THEN InitThreadLocal ELSE NoThreadLocal]
    /\ tlSet = [t \in Threads |-> IF t = "T0" THEN TLFields ELSE {}]
    /\ lastOp = [t \in Threads |-> NoOp]
    /\ lastBuild = [t \in Threads |-> NoBuild]
    /\ resends = [t \in Threads |-> 0]
    /\ actor = "T0"
    /\ opSeq = 0

\* lines 83-99: the algorithm names for which hash_utf8 is bound
KnownAlgorithm(algorithm) == algorithm \in {"None", "MD5", "MD5-SESS", "SHA"}

\* the count if a new nonce did not restart it
NextNonceCount_NoRestart(nonce, last_nonce, nonce_count) == nonce_count + 1

\* lines 118-121: the nonce count for this header
NextNonceCount(nonce, last_nonce, nonce_count) ==
    IF nonce = last_nonce THEN nonce_count + 1 ELSE 1

\* lines 132-138: does the qop allow a response digest
QopSupported(qop) == qop \in {"None", "auth"}

\* HTTPDigestAuth.build_digest_header(method, url) on thread-local state st
\* whose existing attributes are have: the state afterwards, how the call
\* ended, and what it did
build_digest_header(st, have) ==
    IF ~({"chal", "last_nonce"} \subseteq have)
       \/ (st.chal.nonce = st.last_nonce /\ "nonce_count" \notin have)
    THEN [st |-> st, have |-> have, result |-> "AttributeError:_thread_local",
          build |-> NoBuild]
    ELSE IF ~KnownAlgorithm(st.chal.algorithm)
    THEN [st |-> st, have |-> have, result |-> "UnboundLocalError", build |-> NoBuild]
    ELSE LET nonce == st.chal.nonce
             counted == [st EXCEPT !.nonce_count =
                            NextNonceCount(nonce, st.last_nonce, st.nonce_count)]
             have2 == have \cup {"nonce_count"}
             done == [built |-> TRUE, emitted |-> FALSE, nonce |-> nonce,
                      nc |-> counted.nonce_count, header |-> NoHeader]
         IN  IF nonce = "None"
             THEN [st |-> counted, have |-> have2, result |-> "AttributeError:NoneType",
                   build |-> done]
             ELSE IF ~QopSupported(st.chal.qop)
             THEN [st |-> counted, have |-> have2, result |-> "None", build |-> done]
             ELSE [st |-> [counted EXCEPT !.last_nonce = nonce], have |-> have2,
                   result |-> "header",
                   build |-> [done EXCEPT !.emitted = TRUE,
                                          !.header = digest_header(st.chal,
                                                         counted.nonce_count)]]

\* every operation is one step of one thread
Ran(t) ==
    /\ opSeq < MaxOps
    /\ opSeq' = opSeq + 1
    /\ actor' = t
    /\ UNCHANGED notDigest

\* a caller runs build_digest_header on thread t
call_build_digest_header(t) ==
    /\ Ran(t)
    /\ LET b == build_digest_header(tl[t], tlSet[t])
       IN  /\ tl' = [tl EXCEPT ![t] = b.st]
           /\ tlSet' = [tlSet EXCEPT ![t] = b.have]
           /\ lastBuild' = [lastBuild EXCEPT ![t] = b.build]
           /\ lastOp' = [lastOp EXCEPT ![t] =
                  [NoOp EXCEPT !.op = "build_digest_header", !.result = b.result,
                               !.built = b.build.built]]
    /\ UNCHANGED resends

\* HTTPDigestAuth.__call__(r): its first statement calls
\* self.init_per_thread_state(), a method the class does not define, so the
\* call raises AttributeError before it touches any state or registers a hook
HTTPDigestAuth_call(t) ==
    /\ Ran(t)
    /\ lastOp' = [lastOp EXCEPT ![t] =
           [NoOp EXCEPT !.op = "__call__",
                        !.result = "AttributeError:init_per_thread_state"]]
    /\ resends' = [resends EXCEPT ![t] = 0]
    /\ UNCHANGED <<tl, tlSet, lastBuild>>

\* a handle_redirect that leaves the retry counter as it found it
handle_redirect_KeepCounter(t, is_redirect) ==
    /\ Ran(t)
    /\ lastOp' = [lastOp EXCEPT ![t] =
           [NoOp EXCEPT !.op = "handle_redirect", !.result = "None",
                        !.redirect = is_redirect,
                        !.afterResend = resends[t] > 0]]
    /\ UNCHANGED <<tl, tlSet, resends, lastBuild>>

\* HTTPDigestAuth.handle_redirect(r)
handle_redirect(t, is_redirect) ==
    /\ Ran(t)
    /\ IF is_redirect
       THEN /\ tl' = [tl EXCEPT ![t].num_401_calls = 1]
            /\ tlSet' = [tlSet EXCEPT ![t] = @ \cup {"num_401_calls"}]
            /\ resends' = [resends EXCEPT ![t] = 0]
       ELSE UNCHANGED <<tl, tlSet, resends>>
    /\ lastOp' = [lastOp EXCEPT ![t] =
           [NoOp EXCEPT !.op = "handle_redirect", !.result = "None",
                        !.redirect = is_redirect,
                        !.afterResend = resends[t] > 0]]
    /\ UNCHANGED lastBuild

\* the condition without the cap on the retry counter
AnswersChallenge_NoCap(digest, num_401_calls) == digest

\* line 174: the condition under which handle_401 answers the challenge
AnswersChallenge(digest, num_401_calls) == digest /\ num_401_calls < 2

\* the range, if server errors were taken for challenges too
InChallengeRange_ServerErrorsToo(status_code) ==
    400 <= status_code /\ status_code < 600

\* line 166: 400 <= r.status_code < 500
InChallengeRange(status_code) == 400 <= status_code /\ status_code < 500

\* HTTPDigestAuth.handle_401(r)
handle_401(t, r) ==
    /\ Ran(t)
    /\ LET st == tl[t]
           have == tlSet[t]
           op(result, resent) ==
               [NoOp EXCEPT !.op = "handle_401", !.result = result,
                            !.challenge = r.digest, !.resent = resent,
                            !.numBefore = st.num_401_calls,
                            !.afterHop = /\ lastOp[t].op = "handle_redirect"
                                         /\ lastOp[t].redirect
                                         /\ lastOp[t].afterResend]
       IN
       IF ~InChallengeRange(r.status)
       THEN \* lines 166-168
            /\ tl' = [tl EXCEPT ![t].num_401_calls = 1]
            /\ tlSet' = [tlSet EXCEPT ![t] = have \cup {"num_401_calls"}]
            /\ lastOp' = [lastOp EXCEPT ![t] = op("r", FALSE)]
            /\ UNCHANGED <<lastBuild, resends>>
       ELSE IF "pos" \notin have \/ (r.digest /\ "num_401_calls" \notin have)
       THEN \* lines 170, 174: the attribute does not exist in this thread
            /\ lastOp' = [lastOp EXCEPT ![t] = op("AttributeError:_thread_local", FALSE)]
            /\ UNCHANGED <<tl, tlSet, lastBuild, resends>>
       ELSE IF AnswersChallenge(r.digest, st.num_401_calls)
       THEN \* lines 175-191
            LET challenged == [st EXCEPT !.num_401_calls = st.num_401_calls + 1,
                                         !.chal = r.chal]
                b == build_digest_header(challenged, have \cup {"chal"})
                sent == b.result \in {"header", "None"}
                prep == request_copy(RequestObjects)
                \* build_digest_header returns the header or None, or raises
                \* before line 185 assigns
                objects == IF sent
                           THEN set_authorization(prep.objects, prep.id,
                                    IF b.result = "header" THEN "Digest" ELSE "None")
                           ELSE prep.objects
            IN  /\ tl' = [tl EXCEPT ![t] = b.st]
                /\ tlSet' = [tlSet EXCEPT ![t] = b.have]
                /\ lastBuild' = [lastBuild EXCEPT ![t] = b.build]
                /\ resends' = [resends EXCEPT ![t] = IF sent THEN @ + 1 ELSE @]
                /\ lastOp' = [lastOp EXCEPT ![t] =
                       [(IF ~sent THEN op(b.result, FALSE)
                         \* r.connection.send(prep) has been called;
                         \* HTTPAdapter.send is `pass`: _r is None and
                         \* _r.history raises
                         ELSE IF r.connection = "HTTPAdapter"
                         THEN [op("AttributeError:NoneType", TRUE)
                                 EXCEPT !.sent = objects[prep.id]]
                         \* lines 188-191: _r.history.append(r),
                         \* _r.request = prep, return _r
                         ELSE [op("_r", TRUE)
                                 EXCEPT !.sent = objects[prep.id],
                                        !.history = <<"r">>,
                                        !.request = prep.id])
                        EXCEPT !.built = b.build.built, !.orig = objects.orig]]
       ELSE \* lines 193-194
            /\ tl' = [tl EXCEPT ![t].num_401_calls = 1]
            /\ tlSet' = [tlSet EXCEPT ![t] = have \cup {"num_401_calls"}]
            /\ lastOp' = [lastOp EXCEPT ![t] = op("r", FALSE)]
            /\ UNCHANGED <<lastBuild, resends>>

DigestNext ==
    \E t \in Threads :
        \/ HTTPDigestAuth_call(t)
        \/ call_build_digest_header(t)
        \/ \E is_redirect \in BOOLEAN : handle_redirect(t, is_redirect)
        \/ \E r \in Responses : handle_401(t, r)

----------------------------------------------------------------------------
(* BaseAdapter.send and HTTPAdapter.send                                   *)

DEFAULT_RETRIES == 0

\* urllib3's Retry, reduced to its total and its read limit
Retry(total, read) == [total |-> total, read |-> read]

\* HTTPAdapter.__init__, lines 142-145: self.max_retries
HTTPAdapter_init_max_retries(arg) ==
    IF arg = DEFAULT_RETRIES THEN Retry(0, "False")
    ELSE Retry(arg, "None")      \* Retry.from_int(max_retries)

\* what the transport does with one conn.urlopen call: it answers, or it
\* raises one of urllib3's exceptions or a socket error
TransportFaults ==
    { "urllib3.ProtocolError", "socket.error", "urllib3.MaxRetryError",
      "urllib3.ConnectTimeoutError", "urllib3.ReadTimeoutError",
      "urllib3.SSLError", "urllib3.ProxyError", "urllib3.ClosedPoolError" }
TransportOutcomes == {"ok"} \cup TransportFaults

\* requests.exceptions: the errors send may raise to its caller
Taxonomy ==
    { "ConnectionError", "ConnectTimeout", "ReadTimeout", "Timeout", "SSLError",
      "ProxyError", "RetryError" }

NoExchange == [issued |-> FALSE, redirect |-> FALSE, preload_content |-> FALSE,
               retries |-> Retry(0, "False")]

\* the arguments of conn.urlopen if redirects were left to the transport
urlopen_args_FollowRedirects(stream, retries) ==
    [issued |-> TRUE, redirect |-> TRUE, preload_content |-> ~stream,
     retries |-> retries]

\* BaseAdapter.send, lines 71-82: the arguments of conn.urlopen
urlopen_args(stream, retries) ==
    [issued |-> TRUE, redirect |-> FALSE, preload_content |-> ~stream,
     retries |-> retries]

\* BaseAdapter.send, lines 68 and 103-104: what the caller of send sees when
\* the transport raises fault
TranslateFault(fault) ==
    IF fault \in {"urllib3.ProtocolError", "socket.error"} THEN "ConnectionError"
    ELSE fault

SendInit ==
    /\ max_retries_arg \in 0..MaxRetriesArg
    /\ max_retries = HTTPAdapter_init_max_retries(max_retries_arg)
    /\ lastExchange = NoExchange
    /\ exchangeCount = 0
    /\ sendCount = 0
    /\ sendOutcome = "none"

SendIdle ==
    /\ max_retries_arg = DEFAULT_RETRIES
    /\ max_retries = HTTPAdapter_init_max_retries(DEFAULT_RETRIES)
    /\ lastExchange = NoExchange
    /\ exchangeCount = 0
    /\ sendCount = 0
    /\ sendOutcome = "none"

\* BaseAdapter.send(request, stream, ...), run on an adapter that provides
\* get_connection and max_retries (an HTTPAdapter)
BaseAdapter_send(stream, transport) ==
    /\ sendCount < MaxSends
    /\ sendCount' = sendCount + 1
    /\ lastExchange' = urlopen_args(stream, max_retries)
    /\ exchangeCount' = exchangeCount + 1
    /\ sendOutcome' = IF transport = "ok" THEN "Response" ELSE TranslateFault(transport)
    /\ UNCHANGED <<max_retries_arg, max_retries>>
    /\ UNCHANGED notSend

\* HTTPAdapter.send(request, stream, ...): the body is `pass`; nothing is
\* sent and the call returns None
HTTPAdapter_send ==
    /\ sendCount < MaxSends
    /\ sendCount' = sendCount + 1
    /\ sendOutcome' = "None"
    /\ UNCHANGED <<max_retries_arg, max_retries, lastExchange, exchangeCount>>
    /\ UNCHANGED notSend

SendNext ==
    \/ \E stream \in BOOLEAN, transport \in TransportOutcomes :
          BaseAdapter_send(stream, transport)
    \/ HTTPAdapter_send

----------------------------------------------------------------------------
(* Session.mount and Session.get_adapter                                   *)

\* the prefixes adapters are mounted on, and the adapters mounted
MountPrefixes ==
    {"http://", "https://", "https://example.com", "https://example.com/api"}
MountAdapters == {"A1", "A2"}

\* the URLs an adapter is looked up for
LookupUrls ==
    {"http://example.com/", "https://example.com/api/v1", "https://other.org/"}

NoLookup == [made |-> FALSE, url |-> "", ret |-> "None"]

\* Session.__init__, lines 146-148: self.adapters = OrderedDict(), then two
\* mount calls; mount has the body `pass`, so they leave the mapping empty
MountInit ==
    /\ adapters = <<>>
    /\ mounted = <<>>
    /\ lookup = NoLookup

\* Session.mount(prefix, adapter): the body is `pass`; self.adapters is
\* left as it is
Session_mount(prefix, adapter) ==
    /\ Len(mounted) < MaxMounts
    /\ mounted' = Append(mounted, [prefix |-> prefix, adapter |-> adapter])
    /\ UNCHANGED <<adapters, lookup>>
    /\ UNCHANGED notMount

\* Session.get_adapter(url): the body is `pass`; the call returns None and
\* raises nothing
Session_get_adapter(url) ==
    /\ lookup' = [made |-> TRUE, url |-> url, ret |-> "None"]
    /\ lookup' # lookup
    /\ UNCHANGED <<adapters, mounted>>
    /\ UNCHANGED notMount

MountNext ==
    \/ \E prefix \in MountPrefixes, adapter \in MountAdapters :
          Session_mount(prefix, adapter)
    \/ \E url \in LookupUrls : Session_get_adapter(url)

----------------------------------------------------------------------------
(* Functions called on their arguments alone                               *)

\* the call has not returned / has returned value
NoReturn == [done |-> FALSE]
Returned(value) == [done |-> TRUE, value |-> value]

\* no call is being made
CallIdle ==
    /\ args = [fn |-> "none"]
    /\ ret = NoReturn

\* verify as a caller may pass it: a boolean, a path, or None
KeyAttrVerify == VerifyValues \cup {"None"}

\* cert as a caller may pass it: None, a path, a pair, or a longer tuple
KeyAttrCerts ==
    CertValues \cup {[kind |-> "triple", a |-> "c.pem", b |-> "k.pem"]}

KeyAttrsInit ==
    /\ args \in {[fn |-> "build_connection_pool_key_attributes", url |-> u,
                   verify |-> v, cert |-> c] :
                      u \in Urls, v \in KeyAttrVerify, c \in KeyAttrCerts}
    /\ ret = NoReturn

\* a caller evaluates build_connection_pool_key_attributes(request, verify, cert)
call_build_connection_pool_key_attributes ==
    /\ args.fn = "build_connection_pool_key_attributes"
    /\ ~ret.done
    /\ ret' = Returned(build_connection_pool_key_attributes(args.url, args.verify,
                                                            args.cert))
    /\ UNCHANGED args
    /\ UNCHANGED notCall

KeyAttrsNext == call_build_connection_pool_key_attributes

----------------------------------------------------------------------------
(* merge_setting and merge_hooks                                           *)

\* Python values as the merge functions see them: None, a mapping (its
\* items in order, as an OrderedDict keeps them), or a value of another type
None == [type |-> "None", items |-> <<>>, v |-> ""]
Dict(items) == [type |-> "dict", items |-> items, v |-> ""]
Scalar(v) == [type |-> "scalar", items |-> <<>>, v |-> v]

\* isinstance(x, Mapping)
IsMapping(x) == x.type = "dict"

Item(k, v) == [k |-> k, v |-> v]

\* the item lists of the mappings with at most two keys
ItemLists(keys, values) ==
    {<<>>}
    \cup {<<Item(k, v)>> : k \in keys, v \in values}
    \cup {<<Item(k[1], v[1]), Item(k[2], v[2])>> :
             k \in {kk \in keys \X keys : kk[1] # kk[2]}, v \in values \X values}

\* a setting of a session or of a request: None, a mapping such as headers
\* or proxies (a value may be None), or a scalar such as verify
Settings ==
    {None, Scalar("True"), Scalar("False")}
    \cup {Dict(items) : items \in ItemLists({"a", "b"}, {"1", "2", "None"})}

\* hooks of a session or of a request: None or a mapping from event names
\* to lists of hooks
HookSettings ==
    {None, Dict(<<>>),
     Dict(<<Item("response", <<"h1">>), Item("other", <<"h3">>)>>)}
    \cup {Dict(<<Item("response", hooks)>>) :
             hooks \in {<<>>, <<"h1">>, <<"h2">>, <<"h1", "h2">>}}

\* d[k] = v on the items of a dict: an existing key keeps its place
dict_setitem(items, k, v) ==
    IF \E i \in 1..Len(items) : items[i].k = k
    THEN [i \in 1..Len(items) |-> IF items[i].k = k THEN Item(k, v) ELSE items[i]]
    ELSE Append(items, Item(k, v))

\* an update that leaves the keys the dict already has as they are
RECURSIVE dict_update_KeepExisting(_, _)
dict_update_KeepExisting(items, pairs) ==
    IF pairs = <<>> THEN items
    ELSE LET h == Head(pairs)
             next == IF \E i \in 1..Len(items) : items[i].k = h.k
                     THEN items ELSE Append(items, h)
         IN  dict_update_KeepExisting(next, Tail(pairs))

\* dict.update(pairs), line 43, on the items of the dict
RECURSIVE dict_update(_, _)
dict_update(items, pairs) ==
    IF pairs = <<>> THEN items
    ELSE dict_update(dict_setitem(items, Head(pairs).k, Head(pairs).v), Tail(pairs))

\* utils.to_key_val_list(value): the list of the (key, value) pairs
to_key_val_list(value) == value.items

\* dict_class(pairs): OrderedDict built from a list of pairs
dict_class(pairs) == Dict(dict_update(<<>>, pairs))

\* merge_setting, if the session's entries overrode the request's
merge_setting_SessionWins(request_setting, session_setting) ==
    IF session_setting = None THEN request_setting
    ELSE IF request_setting = None THEN session_setting
    ELSE IF IsMapping(session_setting) /\ IsMapping(request_setting)
    THEN Dict(dict_update(dict_class(to_key_val_list(request_setting)).items,
                          to_key_val_list(session_setting)))
    ELSE request_setting

\* merge_setting(request_setting, session_setting, dict_class=OrderedDict)
merge_setting(request_setting, session_setting) ==
    IF session_setting = None THEN request_setting
    ELSE IF request_setting = None THEN session_setting
    ELSE IF IsMapping(session_setting) /\ IsMapping(request_setting)
    THEN Dict(dict_update(dict_class(to_key_val_list(session_setting)).items,
                          to_key_val_list(request_setting)))
    ELSE request_setting

\* hooks.get('response') == []
HasEmptyResponse(hooks) ==
    \E i \in 1..Len(hooks.items) :
        hooks.items[i].k = "response" /\ hooks.items[i].v = <<>>

\* merge_hooks, if an empty 'response' list were not looked for
merge_hooks_NoEmptyCheck(request_hooks, session_hooks) ==
    merge_setting(request_hooks, session_hooks)

\* merge_hooks(request_hooks, session_hooks, dict_class=OrderedDict)
merge_hooks(request_hooks, session_hooks) ==
    IF session_hooks = None \/ HasEmptyResponse(session_hooks) THEN request_hooks
    ELSE IF request_hooks = None \/ HasEmptyResponse(request_hooks) THEN session_hooks
    ELSE merge_setting(request_hooks, session_hooks)

\* the hook functions a caller registers: one returns None, the others
\* return the data they were passed with an item of their own added
HookFns == {"returns_None", "append_a", "append_b"}

\* hook(hook_data, **kwargs), line 25 of hooks.py
call_hook(hook, hook_data) ==
    IF hook = "returns_None" THEN None
    ELSE Dict(Append(hook_data.items, Item(hook, "1")))

\* the hooks argument of dispatch_hook: None, an empty dict, a dict without
\* the key, and dicts that hold under the key one callable or a list of them
DispatchHooks ==
    LET Callable(h) == [callable |-> TRUE, fn |-> h, list |-> <<>>]
        List(hs) == [callable |-> FALSE, fn |-> "", list |-> hs]
        Lists == UNION {[1..n -> HookFns] : n \in 0..MaxHooks}
    IN  {None, Dict(<<>>), Dict(<<Item("other", List(<<"append_a">>))>>)}
        \cup {Dict(<<Item("response", Callable(h))>>) : h \in HookFns}
        \cup {Dict(<<Item("response", List(hs))>>) : hs \in Lists}

\* a loop that takes every result of a hook, None included, as the data
RECURSIVE run_hooks_KeepNone(_, _, _)
run_hooks_KeepNone(hook_list, hook_data, calls) ==
    IF hook_list = <<>> THEN [value |-> hook_data, calls |-> calls]
    ELSE run_hooks_KeepNone(Tail(hook_list),
                            call_hook(Head(hook_list), hook_data),
                            Append(calls, [hook |-> Head(hook_list),
                                           arg |-> hook_data]))

\* dispatch_hook, lines 24-28: the loop over hooks[key]; the value returned
\* and the calls made, each with the data it was passed
RECURSIVE run_hooks(_, _, _)
run_hooks(hook_list, hook_data, calls) ==
    IF hook_list = <<>> THEN [value |-> hook_data, calls |-> calls]
    ELSE LET _hook_data == call_hook(Head(hook_list), hook_data)
         IN  run_hooks(Tail(hook_list),
                       IF _hook_data # None THEN _hook_data ELSE hook_data,
                       Append(calls, [hook |-> Head(hook_list),
                                      arg |-> hook_data]))

\* hooks.dispatch_hook(key, hooks, hook_data)
dispatch_hook(key, hooks, hook_data) ==
    LET items == IF hooks = None THEN <<>> ELSE hooks.items
        at == {i \in DOMAIN items : items[i].k = key}
    IN  IF at = {} THEN [value |-> hook_data, calls |-> <<>>]
        ELSE LET entry == items[CHOOSE i \in at : TRUE].v
             IN  run_hooks(IF entry.callable THEN <<entry.fn>> ELSE entry.list,
                           hook_data, <<>>)

MergeInit ==
    /\ \/ args \in {[fn |-> "merge_setting", request |-> r, session |-> x] :
                       r \in Settings, x \in Settings}
       \/ args \in {[fn |-> "merge_hooks", request |-> r, session |-> x] :
                       r \in HookSettings, x \in HookSettings}
       \/ args \in {[fn |-> "dispatch_hook", key |-> "response", hooks |-> h,
                      hook_data |-> d] :
                       h \in DispatchHooks,
                       d \in {Dict(<<>>), Dict(<<Item("x", "1")>>)}}
    /\ ret = NoReturn

\* a caller evaluates merge_setting(request_setting, session_setting)
call_merge_setting ==
    /\ args.fn = "merge_setting"
    /\ ~ret.done
    /\ ret' = Returned(merge_setting(args.request, args.session))
    /\ UNCHANGED args
    /\ UNCHANGED notCall

\* a caller evaluates merge_hooks(request_hooks, session_hooks)
call_merge_hooks ==
    /\ args.fn = "merge_hooks"
    /\ ~ret.done
    /\ ret' = Returned(merge_hooks(args.request, args.session))
    /\ UNCHANGED args
    /\ UNCHANGED notCall

\* a caller evaluates dispatch_hook(key, hooks, hook_data)
call_dispatch_hook ==
    /\ args.fn = "dispatch_hook"
    /\ ~ret.done
    /\ ret' = Returned(dispatch_hook(args.key, args.hooks, args.hook_data))
    /\ UNCHANGED args
    /\ UNCHANGED notCall

MergeNext == call_merge_setting \/ call_merge_hooks \/ call_dispatch_hook

----------------------------------------------------------------------------
(* get_redirect_target                                                     *)

\* a URL: scheme, host and the segments of its path
Url(scheme, host, path) == [scheme |-> scheme, host |-> host, path |-> path]

\* a URL reference as a Location header may hold it: the parts it names
\* ("" for a part it leaves out), and whether its path starts with "/"
Ref(scheme, host, rooted, path) ==
    [scheme |-> scheme, host |-> host, rooted |-> rooted, path |-> path]

\* the empty string
EmptyRef == Ref("", "", FALSE, <<>>)

\* resp.url
ResponseUrls ==
    { Url("http", "example.com", <<"a", "b">>), Url("https", "example.com", <<>>) }

\* resp.headers: no Location header, an empty one, or one that holds
\* "https://other.org/new", "//other.org/x", "/login" or "next"
LocationHeaders ==
    { [present |-> FALSE, value |-> EmptyRef],
      [present |-> TRUE, value |-> EmptyRef],
      [present |-> TRUE, value |-> Ref("https", "other.org", TRUE, <<"new">>)],
      [present |-> TRUE, value |-> Ref("", "other.org", TRUE, <<"x">>)],
      [present |-> TRUE, value |-> Ref("", "", TRUE, <<"login">>)],
      [present |-> TRUE, value |-> Ref("", "", FALSE, <<"next">>)] }

StatusCodes == {200, 300, 301, 302, 303, 304, 307, 308, 404}

RedirectResponses ==
    [status_code : StatusCodes, location : LocationHeaders, url : ResponseUrls]

\* Python's None where a URL is expected
NoneUrl == Url("None", "None", <<>>)

\* all but the last segment of a path
DirName(path) == IF path = <<>> THEN <<>> ELSE SubSeq(path, 1, Len(path) - 1)

\* urljoin(base, ref) for a ref that is not empty: the reference resolved
\* against the base URL
urljoin(base, ref) ==
    IF ref.scheme # "" THEN Url(ref.scheme, ref.host, ref.path)
    ELSE IF ref.host # "" THEN Url(base.scheme, ref.host, ref.path)
    ELSE IF ref.rooted THEN Url(base.scheme, base.host, ref.path)
    ELSE Url(base.scheme, base.host, DirName(base.path) \o ref.path)

\* Response.is_redirect: a redirect status and a Location header
is_redirect(resp) ==
    resp.location.present /\ resp.status_code \in REDIRECT_STATI

\* get_redirect_target, if the Location value were returned as it stands
get_redirect_target_RawLocation(resp) ==
    IF is_redirect(resp) /\ resp.location.value # EmptyRef
    THEN Url(resp.location.value.scheme, resp.location.value.host,
             resp.location.value.path)
    ELSE NoneUrl

\* SessionRedirectMixin.get_redirect_target(resp); resp.headers.get('location')
\* is falsy when the header is missing and when its value is empty
get_redirect_target(resp) ==
    IF is_redirect(resp)
    THEN LET location == resp.location
         IN  IF location.present /\ location.value # EmptyRef
             THEN urljoin(resp.url, location.value)
             ELSE NoneUrl
    ELSE NoneUrl

TargetInit ==
    /\ args \in {[fn |-> "get_redirect_target", resp |-> r] : r \in RedirectResponses}
    /\ ret = NoReturn

\* a caller evaluates get_redirect_target(resp)
call_get_redirect_target ==
    /\ args.fn = "get_redirect_target"
    /\ ~ret.done
    /\ ret' = Returned(get_redirect_target(args.resp))
    /\ UNCHANGED args
    /\ UNCHANGED notCall

TargetNext == call_get_redirect_target

----------------------------------------------------------------------------
(* rebuild_method                                                          *)

\* prepared_request.method
Methods == {"GET", "HEAD", "POST", "PUT", "PATCH", "DELETE", "OPTIONS"}

\* SessionRedirectMixin.rebuild_method(prepared_request, response): the body
\* is `pass`; prepared_request.method after the call is what it was before
rebuild_method(method, status_code) == method

MethodInit ==
    /\ args \in {[fn |-> "rebuild_method", method |-> m, status_code |-> c] :
                   m \in Methods, c \in StatusCodes}
    /\ ret = NoReturn

\* a caller runs rebuild_method(prepared_request, response) and reads
\* prepared_request.method
call_rebuild_method ==
    /\ args.fn = "rebuild_method"
    /\ ~ret.done
    /\ ret' = Returned(rebuild_method(args.method, args.status_code))
    /\ UNCHANGED args
    /\ UNCHANGED notCall

MethodNext == call_rebuild_method

----------------------------------------------------------------------------
(* An adapter that is used, closed, and used again                         *)

\* a certificate argument of None
NoCert == [kind |-> "none", a |-> "None", b |-> "None"]

CloseNext ==
    \/ \E url \in RequestUrls, proxy \in ProxyChoices :
          get_connection_with_tls_context(url, "True", proxy, NoCert)
    \/ HTTPAdapter_close
    \/ HTTPAdapter_send

----------------------------------------------------------------------------
(* HTTPDigestAuth: the nonce bookkeeping over a run of challenges          *)

\* the auth object after __init__, in the thread that constructed it
NonceInit ==
    /\ nonceTl = InitThreadLocal
    /\ builds = <<>>

\* handle_401, lines 176-185, in the constructing thread, for a 4xx digest
\* response that reaches them (the retry counter is below 2, as it is at
\* the start of a call and after every redirect): the challenge is stored
\* in self._thread_local.chal and build_digest_header runs on it
answer_challenge(chal) ==
    /\ Len(builds) < MaxBuilds
    /\ LET before == [nonceTl EXCEPT !.chal = chal]
           b == build_digest_header(before, TLFields)
       IN  /\ nonceTl' = b.st
           /\ builds' = Append(builds,
                           [chal |-> chal, result |-> b.result,
                            emitted |-> b.build.emitted,
                            last_nonce_before |-> before.last_nonce,
                            nonce_count_before |-> before.nonce_count,
                            last_nonce |-> b.st.last_nonce,
                            nonce_count |-> b.st.nonce_count])
    /\ UNCHANGED notNonce

NonceNext == \E chal \in Challenges : answer_challenge(chal)

----------------------------------------------------------------------------
(* Specifications *)

\* the calls that set the TLS attributes of a pooled connection, with
\* verify True, False, None or a path
TlsNext ==
    \/ \E url \in RequestUrls, verify \in KeyAttrVerify :
          get_connection_with_tls_context(url, verify, "None", NoCert)
    \/ \E conn \in PoolIds, verify \in KeyAttrVerify :
          HTTPAdapter_cert_verify(conn, verify, NoCert)

InitTls      == SessIdle /\ StripIdle /\ PoolInit /\ DigestInit /\ SendIdle
                /\ MountInit /\ NonceInit /\ CallIdle
SpecTls      == InitTls /\ [][TlsNext]_vars
InitNonce    == SessIdle /\ StripIdle /\ PoolInit /\ DigestInit /\ SendIdle
                /\ MountInit /\ NonceInit /\ CallIdle
SpecNonce    == InitNonce /\ [][NonceNext]_vars

InitRedirect == SessInit /\ StripIdle /\ PoolInit /\ DigestInit /\ SendIdle
                /\ MountInit /\ NonceInit /\ CallIdle
InitStrip    == SessIdle /\ StripInit /\ PoolInit /\ DigestInit /\ SendIdle
                /\ MountInit /\ NonceInit /\ CallIdle
InitPool     == SessIdle /\ StripIdle /\ PoolInit /\ DigestInit /\ SendIdle
                /\ MountInit /\ NonceInit /\ CallIdle

SpecRedirect == InitRedirect /\ [][SessNext]_vars
SpecStrip    == InitStrip /\ [][StripNext]_vars
InitDigest   == SessIdle /\ StripIdle /\ PoolInit /\ DigestInit /\ SendIdle
                /\ MountInit /\ NonceInit /\ CallIdle
InitSend     == SessIdle /\ StripIdle /\ PoolInit /\ DigestInit /\ SendInit
                /\ MountInit /\ NonceInit /\ CallIdle

SpecPool     == InitPool /\ [][PoolNext]_vars
SpecDigest   == InitDigest /\ [][DigestNext]_vars
SpecSend     == InitSend /\ [][SendNext]_vars
InitClose    == SessIdle /\ StripIdle /\ PoolInit /\ DigestInit /\ SendIdle
                /\ MountInit /\ NonceInit /\ CallIdle
SpecClose    == InitClose /\ [][CloseNext]_vars
InitProxy    == SessIdle /\ StripIdle /\ PoolInit /\ DigestInit /\ SendIdle
                /\ MountInit /\ NonceInit /\ CallIdle
SpecProxy    == InitProxy /\ [][ProxyNext]_vars
InitMount    == SessIdle /\ StripIdle /\ PoolInit /\ DigestInit /\ SendIdle
                /\ MountInit /\ NonceInit /\ CallIdle
SpecMount    == InitMount /\ [][MountNext]_vars
InitKeyAttrs == SessIdle /\ StripIdle /\ PoolInit /\ DigestInit /\ SendIdle
                /\ MountInit /\ NonceInit /\ KeyAttrsInit
SpecKeyAttrs == InitKeyAttrs /\ [][KeyAttrsNext]_vars
InitMerge    == SessIdle /\ StripIdle /\ PoolInit /\ DigestInit /\ SendIdle
                /\ MountInit /\ NonceInit /\ MergeInit
SpecMerge    == InitMerge /\ [][MergeNext]_vars
InitTarget   == SessIdle /\ StripIdle /\ PoolInit /\ DigestInit /\ SendIdle
                /\ MountInit /\ NonceInit /\ TargetInit
SpecTarget   == InitTarget /\ [][TargetNext]_vars
InitMethod   == SessIdle /\ StripIdle /\ PoolInit /\ DigestInit /\ SendIdle
                /\ MountInit /\ NonceInit /\ MethodInit
SpecMethod   == InitMethod /\ [][MethodNext]_vars

----------------------------------------------------------------------------
(* Claims *)

\* C1: for every chain of k <= max_redirects redirect responses followed by
\* a non-redirect response, Session.send returns that final response and its
\* history holds exactly the k intermediate redirect responses, in order.
C1_FinalResponseWithHistory ==
    (sessPc = "returned" /\ Len(serverChain) <= max_redirects)
        => sendResult = PromisedResponse

\* C2: for every chain longer than max_redirects the call ends by raising
\* TooManyRedirects (it is never truncated into a returned response), and
\* never have more than max_redirects + 1 network sends been issued.
C2_TooManyRedirects ==
    /\ (sessPc # "ready" /\ Len(serverChain) > max_redirects)
          => (sessPc = "raised" /\ raisedError = "TooManyRedirects")
    /\ netSends <= max_redirects + 1

SameHost == old_url.hostname = new_url.hostname

\* C3: starting from headers that include Authorization, the request
\* re-issued after a redirect still carries Authorization when the redirect
\* goes from http to https on the same hostname, and carries none when the
\* target's hostname differs from the current hostname.
C3_AuthAcrossRedirect ==
    (rebuildPc = "done" /\ "Authorization" \in origHeaders) =>
        /\ (SameHost /\ old_url.scheme = "http" /\ new_url.scheme = "https")
              => "Authorization" \in prepHeaders
        /\ ~SameHost => "Authorization" \notin prepHeaders

\* C4: should_strip_auth returns True for every pair of URLs with the same
\* hostname whose scheme or port differ, except when the scheme changes from
\* http to https.
C4_StripOnSchemeOrPortChange ==
    (/\ stripRet # "unset"
     /\ SameHost
     /\ (old_url.scheme # new_url.scheme \/ old_url.port # new_url.port)
     /\ ~(old_url.scheme = "http" /\ new_url.scheme = "https"))
        => stripRet = "True"

\* C5: two requests to the same (scheme, host, port) whose TLS policy
\* (verify / cert) differs are never served from the same connection pool,
\* and two with the same destination and the same TLS policy are served from
\* the same pool (the proxy selection being the same in both cases).
C5_PoolPerTlsPolicy ==
    \A i, j \in 1..Len(served) :
        (/\ served[i].host_params = served[j].host_params
         /\ served[i].proxy = served[j].proxy)
        => ((served[i].verify = served[j].verify /\ served[i].cert = served[j].cert)
               <=> served[i].conn = served[j].conn)

\* the step is an operation of thread t
StepOf(t) == opSeq' # opSeq /\ actor' = t

\* C6: in any sequence of build_digest_header calls on one thread's digest
\* state, the nonce count used is 1 whenever the challenge nonce differs from
\* the last-seen nonce and the previous count plus 1 whenever it equals it;
\* so of two consecutive headers, the second carries the first one's count
\* plus 1 when the nonce is the same, and 1 when the nonce is another one.
C6_NonceCount ==
    [][\A t \in Threads :
        (StepOf(t) /\ lastOp'[t].built) =>
            /\ tl'[t].nonce_count =
                  IF tl'[t].chal.nonce = tl[t].last_nonce
                  THEN tl[t].nonce_count + 1 ELSE 1
            /\ lastBuild'[t].nc = tl'[t].nonce_count
            /\ (lastBuild[t].emitted /\ lastBuild'[t].emitted) =>
                  lastBuild'[t].nc =
                      IF lastBuild'[t].nonce = lastBuild[t].nonce
                      THEN lastBuild[t].nc + 1 ELSE 1
            /\ (tl[t].last_nonce = "" /\ lastBuild'[t].emitted) => lastBuild'[t].nc = 1
      ]_vars

\* C6 witness: a second header for the same nonce has been built, with count 2
C6_Witness ==
    /\ lastBuild["T0"].emitted
    /\ lastBuild["T0"].nc = 2
    /\ lastBuild["T0"].nonce = tl["T0"].last_nonce

C8_PerThreadInitialisedState ==
    \A t \in Threads :
        lastOp[t].op \in {"__call__", "handle_401", "build_digest_header"}
            => /\ {"last_nonce", "nonce_count", "num_401_calls"} \subseteq tlSet[t]
               /\ lastOp[t].result # "AttributeError:_thread_local"

\* C9 as stated: every exchange that an adapter's send issues has redirect
\* following disabled and zero transport-level retries, for every adapter
\* configuration.
C9_NoRedirectNoRetry ==
    lastExchange.issued =>
        /\ ~lastExchange.redirect
        /\ lastExchange.retries.total = 0

\* C9 as amended: every exchange has redirect following disabled and is given
\* the adapter's max_retries as its retry budget: no retry at all (total 0,
\* read False) in the default configuration, max_retries = DEFAULT_RETRIES,
\* and the configured number otherwise; one send issues at most one exchange.
C9_NoRedirectConfiguredRetry ==
    /\ lastExchange.issued =>
          /\ ~lastExchange.redirect
          /\ lastExchange.retries.total = max_retries_arg
          /\ max_retries_arg = DEFAULT_RETRIES =>
                lastExchange.retries = [total |-> 0, read |-> "False"]
    /\ exchangeCount <= sendCount

\* C9 witness: an adapter in the default configuration has issued an exchange
C9_Witness ==
    /\ lastExchange.issued
    /\ max_retries_arg = DEFAULT_RETRIES
    /\ exchangeCount = 2

\* C10: whatever fault the transport raises during a send, send raises an
\* error of the library's taxonomy; a raw transport error never escapes.
C10_FaultsTranslated ==
    sendOutcome \in {"none", "Response", "None"} \cup Taxonomy

\* C11: after close() has been called on an adapter, every later send on it
\* ends in an error of the taxonomy (it returns nothing), and no connection
\* is obtained from a new pool.
C11_SendAfterCloseFails ==
    [][closed =>
         /\ (sendCount' # sendCount => sendOutcome' \in Taxonomy)
         /\ (served' # served => LivePools(pools') = {})]_vars

\* C12: HTTPAdapter.close() leaves no pooled connection in the direct pool
\* manager, none in any proxy manager, and an empty proxy-manager cache.
C12_NothingRetained ==
    [][(~closed /\ closed') =>
         /\ LivePools(pools') = {}
         /\ proxy_manager' = {}]_vars

\* s starts with the prefix p
StartsWith(s, p) ==
    \/ p = "http://" /\ s = "http://example.com/"
    \/ p = "https://" /\ s \in {"https://example.com/api/v1", "https://other.org/"}
    \/ p \in {"https://example.com", "https://example.com/api"}
          /\ s = "https://example.com/api/v1"

\* len(p)
PrefixLen(p) ==
    CASE p = "http://" -> 7
      [] p = "https://" -> 8
      [] p = "https://example.com" -> 19
      [] p = "https://example.com/api" -> 23

\* the mount calls a session has seen: the two of __init__, then the others
AllMounts ==
    <<[prefix |-> "https://", adapter |-> "HTTPAdapter"],
      [prefix |-> "http://", adapter |-> "HTTPAdapter"]>> \o mounted

\* the adapter last mounted on prefix p
MountedOn(p) ==
    LET is == {i \in 1..Len(AllMounts) : AllMounts[i].prefix = p}
        last == CHOOSE i \in is : \A j \in is : j <= i
    IN  AllMounts[last].adapter

\* the longest mounted prefix that url starts with
LongestPrefix(url) ==
    LET ps == {AllMounts[i].prefix : i \in 1..Len(AllMounts)}
        ms == {p \in ps : StartsWith(url, p)}
    IN  CHOOSE p \in ms : \A q \in ms : PrefixLen(q) <= PrefixLen(p)

\* C13: after any sequence of mount calls on a new Session, the items of the
\* prefix-to-adapter mapping are in order of non-increasing prefix length,
\* and get_adapter(url) returns the adapter mounted on the longest prefix
\* the URL starts with.
C13_LongestPrefixAdapter ==
    /\ \A i, j \in 1..Len(adapters) :
          i < j => PrefixLen(adapters[i].prefix) >= PrefixLen(adapters[j].prefix)
    /\ lookup.made => lookup.ret = MountedOn(LongestPrefix(lookup.url))

\* build_connection_pool_key_attributes has returned
KeyAttrsReturned ==
    args.fn = "build_connection_pool_key_attributes" /\ ret.done

\* C14: build_connection_pool_key_attributes never sets both ca_certs and
\* ca_certs_dir: verify=True gives cert_reqs 'CERT_REQUIRED' and neither CA
\* key, verify=False gives 'CERT_NONE' and neither, a string naming an
\* existing directory sets only ca_certs_dir, any other string only ca_certs.
C14_CaFieldsExclusive ==
    KeyAttrsReturned =>
        LET p == ret.value.ssl_params
            v == args.verify
        IN  /\ ~(p.ca_certs # Absent /\ p.ca_certs_dir # Absent)
            /\ v = "True" => /\ p.cert_reqs = "CERT_REQUIRED"
                             /\ p.ca_certs = Absent /\ p.ca_certs_dir = Absent
            /\ v = "False" => /\ p.cert_reqs = "CERT_NONE"
                              /\ p.ca_certs = Absent /\ p.ca_certs_dir = Absent
            /\ (IsStr(v) /\ isdir(v)) =>
                  p.ca_certs_dir = v /\ p.ca_certs = Absent
            /\ (IsStr(v) /\ ~isdir(v)) =>
                  p.ca_certs = v /\ p.ca_certs_dir = Absent

\* the function has returned for a verify that names an existing directory
C14_Witness ==
    /\ KeyAttrsReturned
    /\ args.verify = "/ca/dir"
    /\ ret.value.ssl_params.ca_certs_dir = "/ca/dir"

\* C15: build_connection_pool_key_attributes sets cert_file and no key_file
\* for a cert that is a single path, cert_file and key_file from the first
\* and second element of a two-element pair, neither for no cert; key_file
\* is never set without cert_file.
C15_CertKeyFields ==
    KeyAttrsReturned =>
        LET p == ret.value.ssl_params
            c == args.cert
        IN  /\ c.kind = "str" => p.cert_file = c.a /\ p.key_file = Absent
            /\ c.kind = "pair" => p.cert_file = c.a /\ p.key_file = c.b
            /\ c.kind = "none" => p.cert_file = Absent /\ p.key_file = Absent
            /\ p.key_file # Absent => p.cert_file # Absent

\* the function has returned for a cert that is a single path
C15_Witness ==
    /\ KeyAttrsReturned
    /\ args.cert.kind = "str"
    /\ ret.value.ssl_params.cert_file = "combined.pem"

\* the keys of a mapping, and the value it holds for a key
Keys(d) == {d.items[i].k : i \in 1..Len(d.items)}
ValueOf(d, k) == (CHOOSE it \in {d.items[i] : i \in 1..Len(d.items)} : it.k = k).v

\* C16: merge_setting(per_call, persistent) returns the other argument when
\* one is None; of two mappings it returns a mapping whose keys are the
\* union of both key sets, with the per_call value for each key of per_call
\* and the persistent value for the others; when both are present and one
\* is not a mapping it returns per_call.
C16_MergeSetting ==
    (args.fn = "merge_setting" /\ ret.done) =>
        LET per_call == args.request
            persistent == args.session
            merged == ret.value
        IN  /\ persistent = None => merged = per_call
            /\ per_call = None => merged = persistent
            /\ (IsMapping(per_call) /\ IsMapping(persistent)) =>
                  /\ IsMapping(merged)
                  /\ Len(merged.items) = Cardinality(Keys(merged))
                  /\ Keys(merged) = Keys(per_call) \cup Keys(persistent)
                  /\ \A k \in Keys(merged) :
                        ValueOf(merged, k) = IF k \in Keys(per_call)
                                             THEN ValueOf(per_call, k)
                                             ELSE ValueOf(persistent, k)
            /\ (/\ per_call # None /\ persistent # None
                /\ ~(IsMapping(per_call) /\ IsMapping(persistent))) =>
                  merged = per_call

\* two mappings that share a key with different values have been merged
C16_Witness ==
    /\ args.fn = "merge_setting" /\ ret.done
    /\ args.request = Dict(<<Item("a", "1")>>)
    /\ args.session = Dict(<<Item("a", "2"), Item("b", "2")>>)
    /\ ret.value = Dict(<<Item("a", "1"), Item("b", "2")>>)

\* the hooks a hooks value holds under 'response'
ResponseHooks(hooks) ==
    IF \E i \in 1..Len(hooks.items) : hooks.items[i].k = "response"
    THEN ValueOf(hooks, "response") ELSE <<>>

\* the hooks value is None or has an explicitly empty 'response' list
AbsentOrEmpty(hooks) == hooks = None \/ HasEmptyResponse(hooks)

\* C17: merge_hooks returns the per-call hooks when the session hooks are
\* None or have an empty 'response' list, and otherwise the session hooks
\* when the per-call hooks are None or have an empty 'response' list; an
\* empty per-call list never discards non-empty session hooks.
C17_MergeHooksElision ==
    (args.fn = "merge_hooks" /\ ret.done) =>
        LET per_call == args.request
            session == args.session
        IN  /\ AbsentOrEmpty(session) => ret.value = per_call
            /\ (~AbsentOrEmpty(session) /\ AbsentOrEmpty(per_call)) =>
                  ret.value = session
            /\ (HasEmptyResponse(per_call) /\ ResponseHooks(session) # <<>>) =>
                  ResponseHooks(ret.value) = ResponseHooks(session)

\* session hooks have been merged with an explicitly empty per-call list
C17_Witness ==
    /\ args.fn = "merge_hooks" /\ ret.done
    /\ args.request = Dict(<<Item("response", <<>>)>>)
    /\ ResponseHooks(args.session) = <<"h1">>
    /\ ret.value = args.session

\* both hooks values have a non-empty 'response' list
BothHaveResponseHooks ==
    /\ args.fn = "merge_hooks"
    /\ ResponseHooks(args.request) # <<>>
    /\ ResponseHooks(args.session) # <<>>

\* the members of a list
Members(list) == {list[i] : i \in 1..Len(list)}

\* C18: when both the session hooks and the per-call hooks have a
\* non-empty 'response' list, the mapping merge_hooks returns holds under
\* 'response' every per-call hook and every session hook.
C18_ResponseHooksUnion ==
    (BothHaveResponseHooks /\ ret.done) =>
        (Members(ResponseHooks(args.request)) \cup Members(ResponseHooks(args.session)))
            \subseteq Members(ResponseHooks(ret.value))

\* C18 as the code has it: when both have a non-empty 'response' list the
\* two are merged as ordinary mappings; under 'response' the result holds
\* the per-call list as it is, in place of the session's list, and the
\* events only one side names keep that side's list.
C18_PerCallResponseReplaces ==
    (BothHaveResponseHooks /\ ret.done) =>
        /\ ResponseHooks(ret.value) = ResponseHooks(args.request)
        /\ Keys(ret.value) = Keys(args.request) \cup Keys(args.session)
        /\ \A k \in Keys(args.session) \ Keys(args.request) :
              ValueOf(ret.value, k) = ValueOf(args.session, k)

\* a session hook and a different per-call hook have been merged
C18_Witness ==
    /\ BothHaveResponseHooks /\ ret.done
    /\ ResponseHooks(args.request) = <<"h2">>
    /\ args.session = Dict(<<Item("response", <<"h1">>), Item("other", <<"h3">>)>>)
    /\ ret.value = Dict(<<Item("response", <<"h2">>), Item("other", <<"h3">>)>>)

\* get_redirect_target has returned
TargetReturned == args.fn = "get_redirect_target" /\ ret.done

\* C19: get_redirect_target returns a target exactly when the status is one
\* of 301, 302, 303, 307, 308 and the response carries a Location header,
\* and the target is the Location resolved against the response's URL;
\* otherwise it returns None.
C19_TargetIffRedirectWithLocation ==
    TargetReturned =>
        LET resp == args.resp
        IN  /\ ret.value # NoneUrl <=>
                  (resp.status_code \in {301, 302, 303, 307, 308}
                     /\ resp.location.present)
            /\ ret.value # NoneUrl =>
                  ret.value = urljoin(resp.url, resp.location.value)

\* C19 as the code has it: get_redirect_target returns a target exactly
\* when the status is one of 301, 302, 303, 307, 308 and the response
\* carries a Location header whose value is not empty, and the target is
\* the Location resolved against the response's URL; otherwise (an empty
\* Location value included) it returns None.
C19_TargetIffNonEmptyLocation ==
    TargetReturned =>
        LET resp == args.resp
        IN  /\ ret.value # NoneUrl <=>
                  (/\ resp.status_code \in {301, 302, 303, 307, 308}
                   /\ resp.location.present
                   /\ resp.location.value # EmptyRef)
            /\ ret.value # NoneUrl =>
                  ret.value = urljoin(resp.url, resp.location.value)

\* a 302 whose Location is the relative reference "next" has been resolved
\* against http://example.com/a/b
C19_Witness ==
    /\ TargetReturned
    /\ args.resp.status_code = 302
    /\ args.resp.url = Url("http", "example.com", <<"a", "b">>)
    /\ args.resp.location.value = Ref("", "", FALSE, <<"next">>)
    /\ ret.value = Url("http", "example.com", <<"a", "next">>)

\* C20: rebuild_method sets the method of the re-issued request from the
\* redirect status: on 303 it becomes GET unless it is HEAD, which stays
\* HEAD; on 301 or 302 a POST becomes GET; on 307 or 308 it is unchanged.
C20_MethodRewrite ==
    (args.fn = "rebuild_method" /\ ret.done) =>
        /\ args.status_code = 303 =>
              ret.value = IF args.method = "HEAD" THEN "HEAD" ELSE "GET"
        /\ (args.status_code \in {301, 302} /\ args.method = "POST") =>
              ret.value = "GET"
        /\ args.status_code \in {307, 308} => ret.value = args.method

\* the call has been made on a POST with a body and the first answer is a
\* redirect of the given status that the redirect limit allows to follow
PostRedirected(status, bodies) ==
    /\ sessPc # "ready"
    /\ redirResult # "unset"
    /\ origRequest.method = "POST" /\ origRequest.body \in bodies
    /\ max_redirects >= 1
    /\ serverChain # <<>> /\ Head(serverChain) = status

\* C21: a POST with a body answered by a 303 is re-issued as a GET with an
\* empty body; answered by a 307 it is re-issued as a POST with the same
\* body, rewound to the recorded offset first.
C21_BodyAcrossRedirect ==
    /\ PostRedirected(303, {"bytes", "stream"}) =>
          /\ reissued # <<>>
          /\ Head(reissued).method = "GET" /\ Head(reissued).body = "None"
    /\ PostRedirected(307, {"bytes", "stream"}) =>
          /\ reissued # <<>>
          /\ Head(reissued) = [method |-> "POST", body |-> origRequest.body,
                               rewound |-> TRUE]

\* C22: when a re-issue must resend a stream body that cannot be rewound to
\* its recorded offset, the call fails with the unrewindable-body error and
\* no request carrying the un-rewound body is re-issued.
C22_UnrewindableBodyFails ==
    PostRedirected(307, {"unrewindable"}) =>
        /\ sessPc = "raised" /\ raisedError = "UnrewindableBodyError"
        /\ reissued = <<>>

\* the step is handle_401(r) run by thread t
Handled401(t, r) ==
    /\ StepOf(t)
    /\ lastOp'[t].op = "handle_401"
    /\ handle_401(t, r)

C24_ResendResult ==
    \A t \in Threads :
        (lastOp[t].op = "handle_401" /\ lastOp[t].resent) =>
            /\ lastOp[t].result = "_r"
            /\ lastOp[t].history # <<>>
            /\ lastOp[t].history[Len(lastOp[t].history)] = "r"
            /\ lastOp[t].request = "prep"
            /\ lastOp[t].sent.Authorization = "Digest"

RECURSIVE HexValue(_)
HexValue(text) ==
    IF text = <<>> THEN 0
    ELSE LET last == text[Len(text)]
             d == CHOOSE i \in 0..15 : ToHex(i) = <<last>>
         IN  16 * HexValue(SubSeq(text, 1, Len(text) - 1)) + d

HexDigits == {ToHex(i)[1] : i \in 0..15}

\* C27: a header built by build_digest_header always lists username, realm,
\* nonce, uri and response; it lists opaque exactly when the challenge gave
\* a non-empty opaque, algorithm exactly when the challenge named one, and
\* qop, nc and cnonce exactly when the challenge gave a qop; nc is the
\* current nonce count written as exactly 8 hexadecimal digits.
C27_HeaderFields ==
    \A t \in Threads :
        lastBuild[t].emitted =>
            LET h == lastBuild[t].header
                chal == tl[t].chal
            IN  /\ {"username", "realm", "nonce", "uri", "response"} \subseteq h.fields
                /\ "opaque" \in h.fields <=> chal.opaque \notin {"None", ""}
                /\ "algorithm" \in h.fields <=> chal.algorithm # "None"
                /\ \A f \in {"qop", "nc", "cnonce"} :
                      f \in h.fields <=> chal.qop # "None"
                /\ "nc" \in h.fields =>
                      /\ Len(h.nc) = 8
                      /\ \A i \in 1..Len(h.nc) : h.nc[i] \in HexDigits
                      /\ HexValue(h.nc) = tl[t].nonce_count

\* a second header for the same nonce has been built from a challenge with
\* an opaque and a qop
C27_Witness ==
    \E t \in Threads :
        /\ lastBuild[t].emitted
        /\ lastBuild[t].header.fields =
              {"username", "realm", "nonce", "uri", "response", "opaque",
               "qop", "nc", "cnonce"}
        /\ lastBuild[t].header.nc = <<"0", "0", "0", "0", "0", "0", "0", "2">>

C26_ProxyAuthorization ==
    \A i \in 1..Len(created) :
        LET userinfo == urlparse_userinfo(created[i].proxy)
        IN  /\ created[i].proxy_headers = proxy_headers(created[i].proxy)
            /\ IF userinfo.username # "None"
               THEN created[i].proxy_headers =
                        _basic_auth_str(userinfo.username, userinfo.password)
               ELSE created[i].proxy_headers = NoProxyAuth

\* C28: at most one proxy manager is ever created per distinct proxy URL:
\* a repeated proxy_manager_for call with the same URL returns the manager
\* the first call created, whatever keyword arguments it passes, and
\* different proxy URLs never share a manager.
C28_OneManagerPerProxy ==
    /\ \A i, j \in 1..Len(created) :
           created[i].proxy = created[j].proxy => i = j
    /\ \A i, j \in 1..Len(returned) :
           (returned[i].proxy = returned[j].proxy)
               <=> (returned[i].manager = returned[j].manager)
    /\ \A i \in 1..Len(returned) :
           /\ returned[i].manager \in 1..Len(created)
           /\ created[returned[i].manager].proxy = returned[i].proxy

\* the same proxy URL has been asked for twice with different keyword
\* arguments, and another URL once
C28_Witness ==
    \E i, j, k \in 1..Len(returned) :
        /\ i < j
        /\ returned[i].proxy = returned[j].proxy
        /\ returned[i].kwargs # returned[j].kwargs
        /\ returned[i].manager = returned[j].manager
        /\ created[returned[j].manager].kwargs = returned[i].kwargs
        /\ returned[k].proxy # returned[i].proxy
        /\ Len(created) = 2

\* the hooks registered under the key of the call, as a list
HooksUnderKey ==
    LET items == IF args.hooks = None THEN <<>> ELSE args.hooks.items
        at == {i \in DOMAIN items : items[i].k = args.key}
        entry == items[CHOOSE i \in at : TRUE].v
    IN  IF at = {} THEN <<>>
        ELSE IF entry.callable THEN <<entry.fn>> ELSE entry.list

\* C30: dispatch_hook(key, hooks, data) calls the hooks registered under key
\* in registration order, passes each the most recent non-None result of
\* the hooks before it (the original data if there is none) and returns
\* that value; a single callable counts as a list of one; with hooks empty
\* or without an entry for key, data is returned and no hook is called.
C30_DispatchHook ==
    (args.fn = "dispatch_hook" /\ ret.done) =>
        LET calls == ret.value.calls
            Result(j) == call_hook(calls[j].hook, calls[j].arg)
            Latest(i) ==
                LET prior == {j \in 1..(i - 1) : Result(j) # None}
                IN  IF prior = {} THEN args.hook_data
                    ELSE Result(CHOOSE j \in prior : \A k \in prior : k <= j)
        IN  /\ [i \in 1..Len(calls) |-> calls[i].hook] = HooksUnderKey
            /\ \A i \in 1..Len(calls) : calls[i].arg = Latest(i)
            /\ ret.value.value = Latest(Len(calls) + 1)
            /\ HooksUnderKey = <<>> =>
                  ret.value.value = args.hook_data /\ calls = <<>>

\* two hooks ran in order, the second returned None, and the value returned
\* is the first hook's result
C30_Witness ==
    /\ args.fn = "dispatch_hook" /\ ret.done
    /\ HooksUnderKey = <<"append_a", "returns_None">>
    /\ Len(ret.value.calls) = 2
    /\ ret.value.calls[2].arg = call_hook("append_a", args.hook_data)
    /\ ret.value.value = call_hook("append_a", args.hook_data)
    /\ ret.value.value # args.hook_data

\* C31: across any sequence of challenges handled on one thread's digest
\* state, build_digest_header never emits the same (server nonce, nonce
\* count) pair in two Authorization headers: for a given server nonce the
\* emitted nc values strictly increase.
C31_NonceCountNeverReused ==
    \A i, j \in 1..Len(builds) :
        (/\ i < j
         /\ builds[i].emitted /\ builds[j].emitted
         /\ builds[i].chal.nonce = builds[j].chal.nonce)
        => builds[i].nonce_count < builds[j].nonce_count

\* C32: when build_digest_header emits no header because the challenge's
\* qop is neither absent nor contains 'auth', last_nonce and nonce_count
\* have the values they had before the call.
C32_NoHeaderNoBookkeeping ==
    \A i \in 1..Len(builds) :
        (builds[i].result = "None" /\ ~QopSupported(builds[i].chal.qop)) =>
            /\ builds[i].last_nonce = builds[i].last_nonce_before
            /\ builds[i].nonce_count = builds[i].nonce_count_before

\* C33: build_digest_header uses MD5 for a challenge without an algorithm
\* and the matching hash for MD5, MD5-SESS and SHA, so none of these ends
\* the call with an error; for every other algorithm name it returns None
\* as an ordinary result instead of raising.
C33_UnknownAlgorithmReturnsNone ==
    \A i \in 1..Len(builds) :
        IF builds[i].chal.algorithm \in {"None", "MD5", "MD5-SESS", "SHA"}
        THEN builds[i].result \in {"header", "None"}
        ELSE builds[i].result = "None" /\ ~builds[i].emitted

\* what cert_reqs must be for a verify value
ExpectedCertReqs(verify) ==
    IF verify = "False" THEN "CERT_NONE" ELSE "CERT_REQUIRED"

\* C34: on every connection configured by get_connection_with_tls_context
\* or by cert_verify, cert_reqs is 'CERT_NONE' only when verify is the
\* boolean False and 'CERT_REQUIRED' for every other verify value (True,
\* None, any string), whatever earlier calls applied to the connection.
C34_VerificationOffOnlyOnRequest ==
    [][\A verify \in KeyAttrVerify :
         /\ \A url \in RequestUrls :
               (/\ served' # served
                /\ get_connection_with_tls_context(url, verify, "None", NoCert))
               => pools'[connection_from_url("direct", url)].cert_reqs
                      = ExpectedCertReqs(verify)
         /\ \A conn \in PoolIds :
               (/\ certVerified' # certVerified
                /\ HTTPAdapter_cert_verify(conn, verify, NoCert))
               => pools'[conn].cert_reqs = ExpectedCertReqs(verify)]_vars

\* a pooled connection first configured with verify False has been
\* configured again with verify None, and cert_verify with a verify other
\* than False has then given it the default CA bundle: it verifies
\* certificates
C34_Witness ==
    /\ Len(served) = 2 /\ certVerified = 1
    /\ served[1].verify = "False" /\ served[2].verify = "None"
    /\ served[1].conn = served[2].conn
    /\ pools[served[2].conn].cert_reqs = "CERT_REQUIRED"
    /\ pools[served[2].conn].ca_certs = "DEFAULT_CA_BUNDLE_PATH"

====
